---- MODULE Spec2Model ----
(***************************************************************************)
(* Model of tesla-parser.py: the episode segmentation and summary loop     *)
(* (without --nosummary) over one or several input files, the daily output *)
(* files of --outdir and the database path of --dbconfig; and of the       *)
(* Connection class of teslajson.py.                                       *)
(*                                                                         *)
(* Units: times are whole seconds, levels whole percent, ranges and        *)
(* odometers whole miles, charge_energy_added tenths of a kWh.  A float    *)
(* quotient n/d of the program is kept as the pair <<n, d>>.               *)
(***************************************************************************)
EXTENDS Integers, Sequences, FiniteSets, TLC

\* ---------------------------------------------------------------- bounds
MaxTime == 2
MaxLag == 1
MaxFiles == 2

\* ------------------------------------------------------- python values
\* Python's None for an optional numeric field (all real values are >= 0,
\* and Python 2 orders None below every number).
None == -1

\* "not x" of Python for a numeric-or-None field
Truthy(x) == x # None /\ x # 0

\* a variable that holds no record yet (firstthismode = None, ...)
NoRec == [time |-> None, mode |-> "None", odometer |-> None,
          usable_battery_level |-> None, battery_range |-> None,
          charge_energy_added |-> None]

Modes == {"Charging", "Driving", "Standby", "Conditioning", "Offline"}

\* the field combinations the input records are drawn from: a drive from
\* odometer 100 to 110, and a record without any optional field
Snapshots ==
  { [odometer |-> 100,  usable_battery_level |-> 80,   battery_range |-> 200,  charge_energy_added |-> 125],
    [odometer |-> 110,  usable_battery_level |-> 70,   battery_range |-> 180,  charge_energy_added |-> None],
    [odometer |-> None, usable_battery_level |-> None, battery_range |-> None, charge_energy_added |-> None] }

\* the same for a charge between the levels 50 and 80
ChargingSnapshots ==
  { [odometer |-> 100,  usable_battery_level |-> 80,   battery_range |-> 200,  charge_energy_added |-> 125],
    [odometer |-> 100,  usable_battery_level |-> 50,   battery_range |-> 120,  charge_energy_added |-> 60],
    [odometer |-> None, usable_battery_level |-> None, battery_range |-> None, charge_energy_added |-> None] }

MkRec(t, m, s) ==
  [time |-> t, mode |-> m, odometer |-> s.odometer,
   usable_battery_level |-> s.usable_battery_level,
   battery_range |-> s.battery_range,
   charge_energy_added |-> s.charge_energy_added]

\* tesla_record.__add__ (tesla_parselib): the incoming record becomes the
\* episode's latest snapshot, returned as a new value
RecordAdd(a, b) == b

\* ------------------------------------------------- teslajson.py values
MaxTokens == 2
MaxDays == 3

\* float('inf'), above every time
Infinity == 2147483647

\* no Authorization header / no access token
NoToken == 0
Tokens == 1 .. MaxTokens

\* a Connection before __init__ has assigned its fields
NoSelf == [baseurl |-> << >>, access_token |-> NoToken, expiration |-> 0,
           head |-> NoToken, oauth |-> "unset"]

\* ---------------------------------------------------------------- state
\* firstthismode, lastprevmode, save, lastthis, reallasttime: the globals of
\*   the main loop; this: the record handled last (its time as the loop left
\*   it); lines: what handling that record printed; pc, fault: whether an
\*   exception ended the program, and which.
\* closed / deferred: the record handled last advanced the episode / took
\*   the Driving break.  closedbefore, lag, prevrec, opened, beforeopen,
\*   polled, clock: history of the input (see Read).
\* file: the position of the file being read in args.files; openedin,
\*   closedfrom: history of the files (see Read).
\* dbconfig, outdir: the options given; nexthour, X: the globals of
\*   output_maintenance, X being the day the open output file is named
\*   after; wrote: the day of the file the record handled last was written
\*   to; vehicle, status: the rows of the database.
\* conn: whether and how a Connection (teslajson.py) was constructed; self:
\*   its fields; utc: the time (seconds since the epoch) of its last call
\*   that read the clock; now: what that call computed as now; call: the
\*   last call; sent: the requests that call sent, in order; obtained: the
\*   access token obtained last, given to the constructor or answered by
\*   /oauth/token.
VARIABLES firstthismode, lastprevmode, save, lastthis, reallasttime,
          this, lines, pc, fault,
          closed, deferred, closedbefore, lag, prevrec, opened, beforeopen,
          polled, clock, file, openedin, closedfrom,
          dbconfig, outdir, nexthour, X, wrote, vehicle, status,
          conn, self, utc, now, call, sent, obtained

streamvars == <<firstthismode, lastprevmode, save, lastthis, reallasttime,
          this, lines, pc, fault,
          closed, deferred, closedbefore, lag, prevrec, opened, beforeopen,
          polled, clock>>

\* the input files
filevars == <<file, openedin, closedfrom>>
\* args.dbconfig and args.outdir are given
argvars == <<dbconfig, outdir>>

\* the daily output files: the globals of output_maintenance and the file
\* the line of the record handled last was written to
sinkvars == <<nexthour, X, wrote>>

\* the database: the vehicle row exists, the timestamps of the
\* vehicle_status rows
dbvars == <<vehicle, status>>

\* teslajson.py: the Connection object and the requests it sends
connvars == <<conn, self, utc, now, call, sent, obtained>>

vars == <<streamvars, filevars, argvars, sinkvars, dbvars, connvars>>

\* the program started with or without --dbconfig and --outdir
Start(db, od) ==
  /\ firstthismode = NoRec
  /\ lastprevmode = NoRec
  /\ save = NoRec
  /\ lastthis = NoRec
  /\ reallasttime = None
  /\ this = NoRec
  /\ lines = <<>>
  /\ pc = "running"
  /\ fault = "none"
  /\ closed = FALSE
  /\ deferred = FALSE
  /\ closedbefore = FALSE
  /\ lag = 0
  /\ prevrec = NoRec
  /\ opened = NoRec
  /\ beforeopen = NoRec
  /\ polled = None
  /\ file = 1
  /\ openedin = 1
  /\ closedfrom = 0
  /\ dbconfig = db
  /\ outdir = od
  /\ nexthour = 0
  /\ X = None
  /\ wrote = None
  /\ vehicle = FALSE
  /\ status = {}
  /\ conn = "none"
  /\ self = NoSelf
  /\ utc = 0
  /\ now = 0
  /\ call = "none"
  /\ sent = << >>
  /\ obtained = NoToken
  /\ clock = 1

Init == Start(FALSE, FALSE)

\* -------------------------------------------------------- summary lines
\* a quotient the program computes in floating point
Quot(n, d) == <<n, d>>
Zero == Quot(0, 1)

\* thistime - firstthismodetime, in seconds
Elapsed_swapped(f, sv) == f.time - sv.time
Elapsed(f, sv) == sv.time - f.time

\* one printed line; fields a format does not have are 0 / Zero
Line(kind, f, sv) ==
  [kind |-> kind, mode |-> f.mode, start |-> f.time,
   elapsed |-> Elapsed(f, sv),
   dlevel |-> 0, tolevel |-> 0, energy |-> 0, drange |-> 0, dodo |-> 0,
   rate |-> Zero, eff |-> Zero, ratio |-> Zero]

\* "a if a > b else b" and "a if a < b else b"
Max2(a, b) == IF a > b THEN a ELSE b
Min2(a, b) == IF a < b THEN a ELSE b

\* the guard in front of the mode dispatch
NoPrevState_absent(lp) == lp = NoRec
NoPrevState(lp) ==
  \/ lp = NoRec
  \/ ~Truthy(lp.usable_battery_level)
  \/ ~Truthy(lp.odometer)

\* ---- Charging
\* the value of usable_battery_level the summary uses: the if/elif chain
\* that looks at this.usable_battery_level is overwritten by the
\* unconditional assignment that follows it
ChargingLevel(sv, lt) == Max2(sv.usable_battery_level, lt.usable_battery_level)
ChargingRange(sv, lt) == Max2(sv.battery_range, lt.battery_range)

\* first exception raised while the Charging line is computed and formatted
ChargingFault(f, lp, sv, lt) ==
  LET lvl == ChargingLevel(sv, lt)
      br  == ChargingRange(sv, lt)
      dblevel == lvl - lp.usable_battery_level
  IN  IF lvl = None THEN "TypeError"
      ELSE IF br = None \/ lp.battery_range = None THEN "TypeError"
      ELSE IF Elapsed(f, sv) = 0 THEN "ZeroDivisionError"
      ELSE IF dblevel > 0 /\ sv.charge_energy_added = None THEN "TypeError"
      ELSE IF sv.usable_battery_level = None THEN "TypeError"
      ELSE IF sv.usable_battery_level = 0 THEN "ZeroDivisionError"
      ELSE IF sv.charge_energy_added = None THEN "TypeError"
      ELSE "none"

ChargingEff_nonzero(energy, dblevel) ==
  IF dblevel # 0 THEN Quot(energy * 100, dblevel * 10) ELSE Zero
ChargingEff(energy, dblevel) ==
  IF dblevel > 0 THEN Quot(energy * 100, dblevel * 10) ELSE Zero

ChargingLine(f, lp, sv, lt) ==
  LET lvl == ChargingLevel(sv, lt)
      br  == ChargingRange(sv, lt)
      dblevel == lvl - lp.usable_battery_level
  IN  [Line("Charged", f, sv) EXCEPT
         !.dlevel = dblevel,
         !.tolevel = lvl,
         !.energy = sv.charge_energy_added,
         !.drange = br - lp.battery_range,
         !.rate = Quot((br - lp.battery_range) * 3600, Elapsed(f, sv)),
         !.eff = ChargingEff(sv.charge_energy_added, dblevel),
         !.ratio = Quot(br * 100, sv.usable_battery_level)]

\* ---- Driving
\* "if not this.odometer: break"
DrivingDefers(th) == ~Truthy(th.odometer)

DrivingRange(sv, lt) == Min2(sv.battery_range, lt.battery_range)
DrivingLevel(sv, lt) == Min2(sv.usable_battery_level, lt.usable_battery_level)

\* "if dodo > -1:" in front of the print
DrivingPrints_positive(dodo) == dodo > 0
DrivingPrints(dodo) == dodo > -1

DrivingFault(f, lp, sv, lt) ==
  LET br == DrivingRange(sv, lt)
      lvl == DrivingLevel(sv, lt)
  IN  IF sv.odometer = None THEN "TypeError"
      ELSE IF lp.battery_range = None \/ br = None THEN "TypeError"
      ELSE IF DrivingPrints(sv.odometer - lp.odometer) /\ lvl = None THEN "TypeError"
      ELSE "none"

DrivingEff(dodo, drange) ==
  IF drange > 0 THEN Quot(dodo * 100, drange) ELSE Zero

DrivingLine(f, lp, sv, lt) ==
  LET br == DrivingRange(sv, lt)
      lvl == DrivingLevel(sv, lt)
      dodo == sv.odometer - lp.odometer
      drange == lp.battery_range - br
  IN  [Line("Drove", f, sv) EXCEPT
         !.dodo = dodo,
         !.dlevel = lp.usable_battery_level - lvl,
         !.drange = drange,
         !.eff = DrivingEff(dodo, drange)]

\* ---- Standby and Conditioning
IdleRange(sv, lt) == Min2(sv.battery_range, lt.battery_range)
IdleLevel_min(sv, lt) == Min2(sv.usable_battery_level, lt.usable_battery_level)
IdleLevel(sv, lt) == lt.usable_battery_level

IdleFault(f, lp, sv, lt) ==
  LET br == IdleRange(sv, lt)
      lvl == IdleLevel(sv, lt)
  IN  IF lp.battery_range = None \/ br = None THEN "TypeError"
      ELSE IF lvl = None THEN "TypeError"
      ELSE IF Elapsed(f, sv) = 0 THEN "ZeroDivisionError"
      ELSE "none"

IdleLine(kind, f, lp, sv, lt) ==
  LET br == IdleRange(sv, lt)
      lvl == IdleLevel(sv, lt)
      drange == lp.battery_range - br
  IN  [Line(kind, f, sv) EXCEPT
         !.dlevel = lp.usable_battery_level - lvl,
         !.drange = drange,
         !.rate = Quot(drange * 86400, Elapsed(f, sv)),
         !.tolevel = lvl]

StandbyLine(f, lp, sv, lt) == IdleLine("Sat&Lost", f, lp, sv, lt)
ConditioningLine(f, lp, sv, lt) == IdleLine("Conditioned", f, lp, sv, lt)

\* ---- dispatch on the closing mode
SummaryFault(f, lp, sv, lt) ==
  IF NoPrevState(lp) THEN "none"
  ELSE IF f.mode = "Charging" THEN ChargingFault(f, lp, sv, lt)
  ELSE IF f.mode = "Driving" THEN DrivingFault(f, lp, sv, lt)
  ELSE IF f.mode \in {"Standby", "Conditioning"} THEN IdleFault(f, lp, sv, lt)
  ELSE "none"

SummaryLines_silent(f, lp, sv, lt) ==
  IF NoPrevState(lp) THEN << Line("NoPrevState", f, sv) >>
  ELSE IF f.mode = "Charging" THEN << ChargingLine(f, lp, sv, lt) >>
  ELSE IF f.mode = "Driving" THEN
    IF DrivingPrints(sv.odometer - lp.odometer)
      THEN << DrivingLine(f, lp, sv, lt) >> ELSE << >>
  ELSE IF f.mode = "Standby" THEN << StandbyLine(f, lp, sv, lt) >>
  ELSE IF f.mode = "Conditioning" THEN << ConditioningLine(f, lp, sv, lt) >>
  ELSE << >>
SummaryLines(f, lp, sv, lt) ==
  IF NoPrevState(lp) THEN << Line("NoPrevState", f, sv) >>
  ELSE IF f.mode = "Charging" THEN << ChargingLine(f, lp, sv, lt) >>
  ELSE IF f.mode = "Driving" THEN
    IF DrivingPrints(sv.odometer - lp.odometer)
      THEN << DrivingLine(f, lp, sv, lt) >> ELSE << >>
  ELSE IF f.mode = "Standby" THEN << StandbyLine(f, lp, sv, lt) >>
  ELSE IF f.mode = "Conditioning" THEN << ConditioningLine(f, lp, sv, lt) >>
  ELSE << Line("DoNotHandle", f, sv) >>

\* the Driving branch leaves the loop before computing anything
Defers(f, lp, th) ==
  ~NoPrevState(lp) /\ f.mode = "Driving" /\ DrivingDefers(th)

\* --------------------------------------------------------------- actions
\* the records the parser may hand over next
Times == clock .. MaxTime

\* 1 when r is a non-Polling record whose mode differs from the mode of the
\* non-Polling record before it
IsBoundary(r) ==
  IF r.mode # "Polling" /\ prevrec # NoRec /\ prevrec.mode # r.mode THEN 1 ELSE 0

\* the program is still reading, and the record is not kept from the
\* summary by --dbconfig
CanRead_ignoresdb(r) == pc = "running"
CanRead(r) == pc = "running" /\ ~dbconfig

\* ---- daily output files
SecondsPerHour == 3600
SecondsPerDay == 86400

\* time.strftime("%Y-%m-%d.json", time.gmtime(cur)): the UTC day of cur
DailyName(cur) == cur \div SecondsPerDay

\* output_maintenance(cur): once cur reaches nexthour, the file of cur's day
\* is opened in place of the open one and nexthour moves to the end of
\* cur's hour
output_maintenance(cur) ==
  IF ~outdir \/ cur < nexthour
    THEN UNCHANGED <<nexthour, X>>
    ELSE /\ nexthour' = (cur \div SecondsPerHour + 1) * SecondsPerHour
         /\ X' = DailyName(cur)

\* "if args.outdir: output_maintenance(this.time); X.write(line)"
WriteLine(r) ==
  /\ output_maintenance(r.time)
  /\ wrote' = IF outdir THEN X' ELSE None

\* "save = save + this" / "save = this"
Accumulate(sv, r) == IF sv # NoRec THEN RecordAdd(sv, r) ELSE r

\* "this.time = reallasttime; reallasttime = None" at a mode change
SubstituteTime(r, rlt) == IF Truthy(rlt) THEN [r EXCEPT !.time = rlt] ELSE r
ConsumeRealLast(rlt) == IF Truthy(rlt) THEN None ELSE rlt

\* history of the input: the time of the record read, the non-Polling
\* record read last, whether an episode was closed before this record, and
\* lag = mode boundaries read so far - episodes closed so far, which the
\* input is taken to keep within MaxLag (c = 1 when the record closes an
\* episode); opened, set where an episode opens, is the record as read that
\* opened the open episode, and beforeopen the non-Polling record read
\* immediately before it, the last record of the episode closed then;
\* polled is the time of the Polling record read last since the open
\* episode opened.  The record is read from the file being read: openedin
\* is the file the open episode's first record was read from, closedfrom
\* that of the episode this record closes (0 when it closes none).  Before
\* anything else the record's line is written to the daily output file
Read(r, c) ==
  /\ clock' = r.time
  /\ lag' = lag + IsBoundary(r) - c
  /\ lag' <= MaxLag
  /\ closedbefore' = (closedbefore \/ closed)
  /\ prevrec' = IF r.mode = "Polling" THEN prevrec ELSE r
  /\ beforeopen' = IF c = 1 THEN prevrec ELSE beforeopen
  /\ polled' = IF r.mode = "Polling" /\ prevrec # NoRec THEN r.time
               ELSE IF c = 1 THEN None ELSE polled
  /\ file' = file
  /\ openedin' = IF c = 1 \/ prevrec = NoRec THEN file ELSE openedin
  /\ closedfrom' = IF c = 1 THEN openedin ELSE 0
  /\ WriteLine(r)
  /\ UNCHANGED <<argvars, dbvars, connvars>>

\* a Polling record: only the last real contact time is remembered
Polling_accumulates(t) ==
  LET r == [NoRec EXCEPT !.time = t, !.mode = "Polling"] IN
  /\ CanRead(r)
  /\ Read(r, 0)
  /\ reallasttime' = r.time
  /\ this' = r
  /\ save' = Accumulate(save, r)
  /\ lastthis' = save'
  /\ lines' = << >>
  /\ closed' = FALSE
  /\ deferred' = FALSE
  /\ UNCHANGED <<firstthismode, lastprevmode, pc, fault, opened>>
Polling(t) ==
  LET r == [NoRec EXCEPT !.time = t, !.mode = "Polling"] IN
  /\ CanRead(r)
  /\ Read(r, 0)
  /\ reallasttime' = r.time
  /\ this' = r
  /\ lines' = << >>
  /\ closed' = FALSE
  /\ deferred' = FALSE
  /\ UNCHANGED <<firstthismode, lastprevmode, save, lastthis, pc, fault, opened>>

\* the first record of the stream: the while loop is not entered, its else
\* clause seeds the episode and the boundary
Seed(r) ==
  /\ CanRead(r)
  /\ firstthismode = NoRec
  /\ Read(r, 0)
  /\ save' = Accumulate(save, r)
  /\ this' = r
  /\ reallasttime' = None
  /\ firstthismode' = save'
  /\ lastprevmode' = save'
  /\ lastthis' = save'
  /\ lines' = << >>
  /\ closed' = FALSE
  /\ deferred' = FALSE
  /\ opened' = r
  /\ UNCHANGED <<pc, fault>>

\* a record of the open episode's mode
SameMode_reopens(r) ==
  /\ CanRead(r)
  /\ firstthismode # NoRec
  /\ firstthismode.mode = r.mode
  /\ Read(r, 0)
  /\ save' = Accumulate(save, r)
  /\ this' = r
  /\ firstthismode' = save'
  /\ lastthis' = save'
  /\ lines' = << >>
  /\ closed' = FALSE
  /\ deferred' = FALSE
  /\ UNCHANGED <<lastprevmode, reallasttime, pc, fault, opened>>
SameMode(r) ==
  /\ CanRead(r)
  /\ firstthismode # NoRec
  /\ firstthismode.mode = r.mode
  /\ Read(r, 0)
  /\ save' = Accumulate(save, r)
  /\ this' = r
  /\ lastthis' = save'
  /\ lines' = << >>
  /\ closed' = FALSE
  /\ deferred' = FALSE
  /\ UNCHANGED <<firstthismode, lastprevmode, reallasttime, pc, fault, opened>>

\* a record of another mode, Driving episode, record without odometer:
\* the loop is left before anything is computed or advanced
Defer(r) ==
  /\ CanRead(r)
  /\ firstthismode # NoRec
  /\ firstthismode.mode # r.mode
  /\ Defers(firstthismode, lastprevmode, SubstituteTime(r, reallasttime))
  /\ Read(r, 0)
  /\ save' = Accumulate(save, r)
  /\ this' = SubstituteTime(r, reallasttime)
  /\ reallasttime' = ConsumeRealLast(reallasttime)
  /\ lastthis' = save'
  /\ lines' = << >>
  /\ closed' = FALSE
  /\ deferred' = TRUE
  /\ UNCHANGED <<firstthismode, lastprevmode, pc, fault, opened>>

\* a record of another mode: the open episode is summarised and closed
Close_keepsboundary(r) ==
  /\ CanRead(r)
  /\ firstthismode # NoRec
  /\ firstthismode.mode # r.mode
  /\ ~Defers(firstthismode, lastprevmode, SubstituteTime(r, reallasttime))
  /\ SummaryFault(firstthismode, lastprevmode, Accumulate(save, r), lastthis) = "none"
  /\ Read(r, 1)
  /\ save' = Accumulate(save, r)
  /\ this' = SubstituteTime(r, reallasttime)
  /\ reallasttime' = ConsumeRealLast(reallasttime)
  /\ lines' = SummaryLines(firstthismode, lastprevmode, save', lastthis)
  /\ firstthismode' = save'
  /\ lastprevmode' = lastprevmode
  /\ lastthis' = save'
  /\ closed' = TRUE
  /\ deferred' = FALSE
  /\ opened' = r
  /\ UNCHANGED <<pc, fault>>
Close(r) ==
  /\ CanRead(r)
  /\ firstthismode # NoRec
  /\ firstthismode.mode # r.mode
  /\ ~Defers(firstthismode, lastprevmode, SubstituteTime(r, reallasttime))
  /\ SummaryFault(firstthismode, lastprevmode, Accumulate(save, r), lastthis) = "none"
  /\ Read(r, 1)
  /\ save' = Accumulate(save, r)
  /\ this' = SubstituteTime(r, reallasttime)
  /\ reallasttime' = ConsumeRealLast(reallasttime)
  /\ lines' = SummaryLines(firstthismode, lastprevmode, save', lastthis)
  /\ firstthismode' = save'
  /\ lastprevmode' = lastthis
  /\ lastthis' = save'
  /\ closed' = TRUE
  /\ deferred' = FALSE
  /\ opened' = r
  /\ UNCHANGED <<pc, fault>>

\* a record of another mode whose summary raises: the exception leaves the
\* loop and the program, nothing is printed or advanced
Abort(r) ==
  /\ CanRead(r)
  /\ firstthismode # NoRec
  /\ firstthismode.mode # r.mode
  /\ ~Defers(firstthismode, lastprevmode, SubstituteTime(r, reallasttime))
  /\ SummaryFault(firstthismode, lastprevmode, Accumulate(save, r), lastthis) # "none"
  /\ Read(r, 0)
  /\ save' = Accumulate(save, r)
  /\ this' = SubstituteTime(r, reallasttime)
  /\ reallasttime' = ConsumeRealLast(reallasttime)
  /\ fault' = SummaryFault(firstthismode, lastprevmode, save', lastthis)
  /\ pc' = "aborted"
  /\ lines' = << >>
  /\ closed' = FALSE
  /\ deferred' = FALSE
  /\ UNCHANGED <<firstthismode, lastprevmode, lastthis, opened>>

\* one record read and handled, its time drawn from T, its mode from M and
\* its fields from S
StepOf(T, M, S) ==
  \/ \E t \in T : Polling(t)
  \/ \E t \in T, m \in M, s \in S : Seed(MkRec(t, m, s))
  \/ \E t \in T, m \in M, s \in S : SameMode(MkRec(t, m, s))
  \/ \E t \in T, m \in M, s \in S : Defer(MkRec(t, m, s))
  \/ \E t \in T, m \in M, s \in S : Close(MkRec(t, m, s))
  \/ \E t \in T, m \in M, s \in S : Abort(MkRec(t, m, s))

Step(S) == StepOf(Times, Modes, S)

Next == Step(Snapshots)
Spec == Init /\ [][Next]_vars

\* readline() returns nothing: the file is closed and the next one of
\* args.files is opened; the globals of the main loop are assigned before
\* the loop over the files only
NextFile_resets ==
  /\ pc = "running"
  /\ file < MaxFiles
  /\ file' = file + 1
  /\ firstthismode' = NoRec
  /\ lastprevmode' = NoRec
  /\ save' = NoRec
  /\ lastthis' = NoRec
  /\ reallasttime' = None
  /\ UNCHANGED <<this, lines, pc, fault, closed, deferred, closedbefore, lag,
                 prevrec, opened, beforeopen, polled, clock, openedin,
                 closedfrom, argvars, sinkvars, dbvars, connvars>>
NextFile ==
  /\ pc = "running"
  /\ file < MaxFiles
  /\ file' = file + 1
  /\ UNCHANGED <<streamvars, openedin, closedfrom, argvars, sinkvars, dbvars,
                 connvars>>

\* the records of the files: drives and stops, a full record and one
\* without optional fields
FileSnapshots ==
  { [odometer |-> 100,  usable_battery_level |-> 80,   battery_range |-> 200,  charge_energy_added |-> 125],
    [odometer |-> None, usable_battery_level |-> None, battery_range |-> None, charge_energy_added |-> None] }

FileModes == {"Driving", "Standby"}

NextFiles == StepOf(Times, FileModes, FileSnapshots) \/ NextFile
SpecFiles == Init /\ [][NextFiles]_vars

\* ---- --dbconfig: the record is handed to the database and nothing else
\* is done with it
\* how the database answers: every statement succeeds; the insert into
\* vehicle fails (the status row is skipped); the insert into
\* vehicle_status fails or meets an existing row; the query of the vehicle
\* table fails (exit); closing the cursor fails (exit)
DbOutcomes == {"stored", "novehicle", "nostatus", "queryfailed", "closefailed"}

Persist(r, o) ==
  /\ pc = "running"
  /\ dbconfig
  /\ o = "novehicle" => ~vehicle
  /\ this' = r
  /\ clock' = r.time
  /\ vehicle' = (vehicle \/ o \in {"stored", "nostatus", "closefailed"})
  /\ status' = IF o = "stored" THEN status \cup {r.time} ELSE status
  /\ pc' = IF o \in {"queryfailed", "closefailed"} THEN "exited" ELSE pc
  /\ lines' = << >>
  /\ closed' = FALSE
  /\ deferred' = FALSE
  /\ UNCHANGED <<firstthismode, lastprevmode, save, lastthis, reallasttime,
                 fault, closedbefore, lag, prevrec, opened, beforeopen,
                 polled, filevars, argvars, sinkvars, connvars>>

\* the records of a run with options: two days, an hour apart on the first,
\* in any order
OutTimes == {10, SecondsPerHour + 10, SecondsPerDay + 10}
OutModes == {"Driving", "Standby"}
OutSnapshots ==
  { [odometer |-> 100,  usable_battery_level |-> 80,   battery_range |-> 200,  charge_energy_added |-> 125],
    [odometer |-> None, usable_battery_level |-> None, battery_range |-> None, charge_energy_added |-> None] }

InitOptions == \E db \in BOOLEAN, od \in BOOLEAN : Start(db, od)
NextOptions ==
  \/ StepOf(OutTimes, OutModes, OutSnapshots)
  \/ \E t \in OutTimes, m \in OutModes \cup {"Polling"}, s \in OutSnapshots,
        o \in DbOutcomes : Persist(MkRec(t, m, s), o)
SpecOptions == InitOptions /\ [][NextOptions]_vars

NextCharging == Step(ChargingSnapshots)
SpecCharging == Init /\ [][NextCharging]_vars

\* ------------------------------------------------ teslajson.Connection
\* a URL is the sequence of its characters
StartsWith(s, p) == Len(s) >= Len(p) /\ SubSeq(s, 1, Len(p)) = p
EndsWith(s, p) == Len(s) >= Len(p) /\ SubSeq(s, Len(s) - Len(p) + 1, Len(s)) = p
Contains(s, ch) == \E i \in 1 .. Len(s) : s[i] = ch

Prefix == << "h", "t", "t", "p", "s", ":", "/", "/" >>
TeslaMotors == << ".", "t", "e", "s", "l", "a", "m", "o", "t", "o", "r", "s",
                  ".", "c", "o", "m" >>
Tesla == << ".", "t", "e", "s", "l", "a", ".", "c", "o", "m" >>
Pastebin == << "h", "t", "t", "p", ":", "/", "/", "p", "a", "s", "t", "e",
               "b", "i", "n", ".", "c", "o", "m" >>

\* the test in front of 'raise IOError("Unexpected URL ...")'
UnexpectedURL(b) ==
  \/ ~StartsWith(b, Prefix)
  \/ Contains(SubSeq(b, Len(Prefix) + 1, Len(b)), "/")
  \/ ~(EndsWith(b, TeslaMotors) \/ EndsWith(b, Tesla))

\* what the pastebin page may name as baseurl: https://o.tesla.com,
\* http://o.tesla.com, https://e/.tesla.com and https://e?.tesla.com
BaseUrls ==
  { Prefix \o << "o" >> \o Tesla,
    << "h", "t", "t", "p", ":", "/", "/", "o" >> \o Tesla,
    Prefix \o << "e", "/" >> \o Tesla,
    Prefix \o << "e", "?" >> \o Tesla }

\* Request("%s%s" % (baseurl, url)): the scheme and the host urllib2 takes
\* from the URL of a request. The scheme is what precedes the first ':'
\* (splittype), the host is what follows the "//" after it, up to the first
\* '/' or '?' (splithost); every url given to __open starts with '/'.
First(s, C) ==
  CHOOSE i \in 1 .. Len(s) + 1 :
    /\ i = Len(s) + 1 \/ s[i] \in C
    /\ \A j \in 1 .. i - 1 : s[j] \notin C
splittype(u) ==
  LET i == First(u, {":"})
  IN [scheme |-> SubSeq(u, 1, i - 1), rest |-> SubSeq(u, i + 1, Len(u))]
splithost(rest) ==
  IF StartsWith(rest, << "/", "/" >>)
    THEN LET t == SubSeq(rest, 3, Len(rest))
         IN SubSeq(t, 1, First(t, {"/", "?"}) - 1)
    ELSE << >>
RequestScheme(r) == splittype(r.base \o << "/" >>).scheme
RequestHost(r) == splithost(splittype(r.base \o << "/" >>).rest)

\* "now = calendar.timegm(datetime.datetime.now().timetuple())" at the time
\* t on a host whose local time is z seconds ahead of UTC: the local
\* date and time, read as if it were UTC
LocalNow(t, z) == t + z
UtcOffsets == { 0 - SecondsPerHour, 0, SecondsPerHour }

\* the times of the calls and the answers of /oauth/token
NowTimes == { k * SecondsPerDay + SecondsPerHour : k \in 1 .. MaxDays }
Lifetimes == { SecondsPerHour, SecondsPerDay, 2 * SecondsPerDay }
NoReply == [access_token |-> NoToken, created_at |-> 0, expires_in |-> 0]
Replies == [access_token : Tokens, created_at : NowTimes, expires_in : Lifetimes]

\* the requests __open sends
FetchRequest ==
  [base |-> Pastebin, path |-> "/raw/0a8e0xTJ", bearer |-> NoToken,
   grant |-> "none", reply |-> NoReply]
TokenRequest(c, reply) ==
  [base |-> c.baseurl, path |-> "/oauth/token", bearer |-> NoToken,
   grant |-> c.oauth, reply |-> reply]
ApiRequest(c) ==
  [base |-> c.baseurl, path |-> "api", bearer |-> c.head,
   grant |-> "none", reply |-> NoReply]

\* _sethead(access_token, expiration)
sethead(c, token, exp) ==
  [c EXCEPT !.access_token = token, !.expiration = exp, !.head = token]

\* "if now > self.expiration"
Refreshes(n, c) == n > c.expiration

\* post(command, data) on the Connection c when now is n: the Connection
\* it leaves, the requests it sends and whether it raises; o says which
\* request fails, reply is the answer of /oauth/token
post(c, n, o, reply) ==
  IF Refreshes(n, c)
    THEN IF o = "tokenfails"
           THEN [self |-> c, sent |-> << TokenRequest(c, NoReply) >>, raised |-> TRUE]
           ELSE LET c2 == sethead(c, reply.access_token,
                                  reply.created_at + reply.expires_in - SecondsPerDay)
                IN [self |-> c2,
                    sent |-> << TokenRequest(c, reply), ApiRequest(c2) >>,
                    raised |-> (o = "apifails")]
    ELSE [self |-> c, sent |-> << ApiRequest(c) >>, raised |-> (o = "apifails")]

Outcomes == {"ok", "tokenfails", "apifails"}

\* everything of tesla-parser.py
parservars == <<streamvars, filevars, argvars, sinkvars, dbvars>>

\* Connection(email, password, access_token): the pastebin page names url;
\* tok is the access_token given (NoToken for none)
Construct(url, tok, t, z, o, reply) ==
  LET c0 == [NoSelf EXCEPT !.baseurl = url]
      c1 == IF tok # NoToken
              THEN sethead(c0, tok, Infinity)
              ELSE [c0 EXCEPT !.oauth = "password", !.expiration = 0]
      res == post(c1, LocalNow(t, z), o, reply)
  IN
  /\ conn = "none"
  /\ call' = "init"
  /\ IF UnexpectedURL(url)
       THEN /\ conn' = "failed"
            /\ self' = c0
            /\ sent' = << FetchRequest >>
            /\ UNCHANGED <<utc, now, obtained>>
       ELSE /\ conn' = IF res.raised THEN "failed"
                       ELSE IF tok # NoToken THEN "token" ELSE "password"
            /\ self' = res.self
            /\ sent' = << FetchRequest >> \o res.sent
            /\ utc' = t
            /\ now' = LocalNow(t, z)
            /\ obtained' = res.self.access_token
  /\ UNCHANGED parservars

\* Connection.post / Connection.get
Post(t, z, o, reply) ==
  LET res == post(self, LocalNow(t, z), o, reply) IN
  /\ conn \in {"token", "password"}
  /\ t >= utc
  /\ call' = "post"
  /\ self' = res.self
  /\ sent' = res.sent
  /\ utc' = t
  /\ now' = LocalNow(t, z)
  /\ obtained' = IF Len(res.sent) = 2 THEN res.self.access_token ELSE obtained
  /\ UNCHANGED <<conn, parservars>>

\* Connection.refresh_token(refresh_token); reply is NoReply when the
\* request fails
RefreshToken(reply) ==
  /\ conn \in {"token", "password"}
  /\ call' = "refresh_token"
  /\ self' = [self EXCEPT !.oauth = "refresh_token", !.head = NoToken]
  /\ sent' = << TokenRequest(self', reply) >>
  /\ obtained' = IF reply # NoReply THEN reply.access_token ELSE obtained
  /\ UNCHANGED <<conn, utc, now, parservars>>

NextConn ==
  \/ \E url \in BaseUrls, tok \in Tokens \cup {NoToken}, t \in NowTimes,
        z \in UtcOffsets, o \in Outcomes, reply \in Replies :
          Construct(url, tok, t, z, o, reply)
  \/ \E t \in NowTimes, z \in UtcOffsets, o \in Outcomes, reply \in Replies :
          Post(t, z, o, reply)
  \/ \E reply \in Replies \cup {NoReply} : RefreshToken(reply)
SpecConn == Init /\ [][NextConn]_vars

\* ================================================================ claims
DeltaKinds == {"Charged", "Drove", "Sat&Lost", "Conditioned"}

\* n1/d1 = n2/d2 for quotients with non-zero denominators
SameQuot(q, n, d) == q[1] * d = n * q[2]

\* a step that handles a non-Polling record of a mode other than the open
\* episode's while the missing-boundary guard does not fire
ClosingStep(mode) ==
  /\ firstthismode.mode = mode
  /\ this' # this \/ clock' # clock \/ closed' \/ deferred' \/ pc' # pc
  /\ prevrec'.mode # mode
  /\ this'.mode = prevrec'.mode
  /\ ~NoPrevState(lastprevmode)

\* C1: the close of the very first episode of a stream never prints a
\* delta-based line (Charged / Drove / Sat&Lost / Conditioned), only the
\* "did not have previous state" line or nothing.
C1_FirstEpisodeSuppressed ==
  (closed /\ ~closedbefore) =>
     \A i \in 1..Len(lines) : lines[i].kind \notin DeltaKinds

\* C2: the number of episode closings equals the number of adjacent pairs of
\* non-Polling records whose modes differ (their difference, lag, is 0).
C2_ClosureExactlyOnce == lag = 0

\* C3: a closing episode with zero elapsed seconds or zero delta-% never
\* raises an arithmetic fault, and its rate fields are the sentinel 0.
C3_NoDivideByZero ==
  /\ fault # "ZeroDivisionError"
  /\ \A i \in 1..Len(lines) :
        /\ lines[i].elapsed = 0 => lines[i].rate = Zero
        /\ (lines[i].kind = "Charged" /\ lines[i].dlevel = 0) => lines[i].eff = Zero

\* C4: processing a record never aborts, whatever optional fields are
\* absent on the record, the snapshot or the boundary records.
C4_NeverAborts == pc # "aborted"

\* C5: a closing Driving episode is skipped exactly when its own last record
\* has no odometer, then nothing is printed and firstthismode / lastprevmode
\* stay; with a last odometer it is summarised at that transition whatever
\* the incoming record carries.
C5_DrivingDeferral ==
  [][ ClosingStep("Driving") =>
        /\ deferred' <=> ~Truthy(prevrec.odometer)
        /\ deferred' => /\ lines' = << >>
                        /\ firstthismode' = firstthismode
                        /\ lastprevmode' = lastprevmode
        /\ ~deferred' => closed' ]_vars

\* C6: a summarised Driving episode reports distance = last odometer -
\* previousBoundary odometer, battery used and range used against the lower
\* of the two snapshots, efficiency = distance*100/rangeUsed (0 when
\* rangeUsed <= 0); two Driving records (odo 100/110, battery 80/70, range
\* 200/180) followed by a Standby record without odometer, after the
\* boundary (80, 200, 100), give one Drove line 10 / 10 / 20 / 50.
C6_DrivingMetrics ==
  [][ ClosingStep("Driving") =>
        /\ (closed' /\ lines' # << >>) =>
              /\ Len(lines') = 1
              /\ lines'[1].kind = "Drove"
              /\ lines'[1].dodo = save'.odometer - lastprevmode.odometer
              /\ \E lvl \in {save'.usable_battery_level, lastthis.usable_battery_level} :
                    /\ lvl <= save'.usable_battery_level
                    /\ lvl <= lastthis.usable_battery_level
                    /\ lines'[1].dlevel = lastprevmode.usable_battery_level - lvl
              /\ \E rng \in {save'.battery_range, lastthis.battery_range} :
                    /\ rng <= save'.battery_range
                    /\ rng <= lastthis.battery_range
                    /\ lines'[1].drange = lastprevmode.battery_range - rng
              /\ IF lines'[1].drange > 0
                   THEN SameQuot(lines'[1].eff, lines'[1].dodo * 100, lines'[1].drange)
                   ELSE lines'[1].eff = Zero
        /\ ( /\ lastprevmode.odometer = 100
             /\ lastprevmode.usable_battery_level = 80
             /\ lastprevmode.battery_range = 200
             /\ firstthismode.odometer = 100
             /\ prevrec.mode = "Driving"
             /\ prevrec.odometer = 110
             /\ prevrec.usable_battery_level = 70
             /\ prevrec.battery_range = 180
             /\ this'.mode = "Standby"
             /\ this'.odometer = None ) =>
              /\ Len(lines') = 1
              /\ lines'[1].kind = "Drove"
              /\ lines'[1].dodo = 10
              /\ lines'[1].dlevel = 10
              /\ lines'[1].drange = 20
              /\ SameQuot(lines'[1].eff, 50, 1) ]_vars

\* the higher / the lower of a and b
IsMax(x, a, b) == x \in {a, b} /\ x >= a /\ x >= b
IsMin(x, a, b) == x \in {a, b} /\ x <= a /\ x <= b

\* what every summarised Charging episode reports, but for the efficiency
ChargingDeltas ==
  /\ Len(lines') = 1
  /\ lines'[1].kind = "Charged"
  /\ IsMax(lines'[1].tolevel, save'.usable_battery_level, lastthis.usable_battery_level)
  /\ this'.usable_battery_level > prevrec.usable_battery_level
       => lines'[1].tolevel = this'.usable_battery_level
  /\ lines'[1].dlevel = lines'[1].tolevel - lastprevmode.usable_battery_level
  /\ \E rng \in {save'.battery_range, lastthis.battery_range} :
        /\ IsMax(rng, save'.battery_range, lastthis.battery_range)
        /\ lines'[1].drange = rng - lastprevmode.battery_range
  /\ lines'[1].energy = save'.charge_energy_added
  /\ ( /\ lastprevmode.usable_battery_level = 50
       /\ lines'[1].tolevel = 80
       /\ lines'[1].energy = 125 ) =>
        /\ lines'[1].dlevel = 30
        /\ SameQuot(lines'[1].eff, 1250, 30)

\* C7 as stated: delta-% = peak level - previousBoundary level, delta range
\* = peak range - previousBoundary range, efficiency = energy*100/delta-%,
\* and 0 when delta-% is 0.
C7_ChargingMetrics ==
  [][ (ClosingStep("Charging") /\ closed') =>
        /\ ChargingDeltas
        /\ IF lines'[1].dlevel = 0
             THEN lines'[1].eff = Zero
             ELSE SameQuot(lines'[1].eff, lines'[1].energy * 100, lines'[1].dlevel * 10) ]_vars

\* C7 amended: as C7, with the efficiency reported as 0 whenever delta-% is
\* 0 or negative.
C7_ChargingMetricsAmended ==
  [][ (ClosingStep("Charging") /\ closed') =>
        /\ ChargingDeltas
        /\ IF lines'[1].dlevel <= 0
             THEN lines'[1].eff = Zero
             ELSE SameQuot(lines'[1].eff, lines'[1].energy * 100, lines'[1].dlevel * 10) ]_vars

C7_Witness ==
  /\ closed
  /\ Len(lines) = 1
  /\ lines[1].kind = "Charged"
  /\ lastprevmode.mode = "Charging"
  /\ lines[1].tolevel = 80
  /\ lines[1].dlevel = 30
  /\ lines[1].energy = 125

\* what every summarised Standby / Conditioning episode reports, but for
\* the battery lost
IdleDeltas ==
  /\ Len(lines') = 1
  /\ lines'[1].kind = IF firstthismode.mode = "Standby" THEN "Sat&Lost" ELSE "Conditioned"
  /\ \E rng \in {save'.battery_range, lastthis.battery_range} :
        /\ IsMin(rng, save'.battery_range, lastthis.battery_range)
        /\ lines'[1].drange = lastprevmode.battery_range - rng
  /\ SameQuot(lines'[1].rate, lines'[1].drange * 86400, clock' - opened.time)

\* C8 as stated: Standby and Conditioning report battery lost =
\* previousBoundary level - the lower of the closing and the prior
\* snapshot's level, range lost likewise, rate = rangeLost per day.
C8_IdleMetrics ==
  [][ ((ClosingStep("Standby") \/ ClosingStep("Conditioning")) /\ closed') =>
        /\ IdleDeltas
        /\ \E lvl \in {save'.usable_battery_level, lastthis.usable_battery_level} :
              /\ IsMin(lvl, save'.usable_battery_level, lastthis.usable_battery_level)
              /\ lines'[1].dlevel = lastprevmode.usable_battery_level - lvl ]_vars

\* C8 amended: as C8, with battery lost = previousBoundary level - the prior
\* snapshot's (lastthis) level, which is also the resulting level reported;
\* only the range lost takes the lower of the two snapshots.
C8_IdleMetricsAmended ==
  [][ ((ClosingStep("Standby") \/ ClosingStep("Conditioning")) /\ closed') =>
        /\ IdleDeltas
        /\ lines'[1].tolevel = lastthis.usable_battery_level
        /\ lines'[1].dlevel = lastprevmode.usable_battery_level - lastthis.usable_battery_level ]_vars

C8_Witness ==
  /\ closed
  /\ Len(lines) = 1
  /\ lines[1].kind = "Conditioned"
  /\ save.usable_battery_level # None
  /\ lines[1].tolevel > save.usable_battery_level
  /\ lines[1].drange > 0

\* C9 as stated: the elapsed duration of a summarised episode is the time of
\* the closing episode's last record minus the time of its first record.
C9_Duration ==
  [][ (closed' /\ lines' # << >>) =>
        /\ lines'[1].start = opened.time
        /\ lines'[1].elapsed = prevrec.time - opened.time ]_vars

\* C9 amended: the elapsed duration is the time of the record that closes
\* the episode (the record of the next mode) minus the time of the
\* episode's first record.
C9_DurationAmended ==
  [][ (closed' /\ lines' # << >>) =>
        /\ lines'[1].start = opened.time
        /\ lines'[1].elapsed = clock' - opened.time ]_vars

C9_Witness ==
  /\ closed
  /\ Len(lines) = 1
  /\ lines[1].kind \in DeltaKinds
  /\ lastprevmode.mode = lines[1].mode
  /\ lastprevmode.time = lines[1].start
  /\ lines[1].elapsed = 1

\* C10 as stated: every closed episode prints exactly one line.
C10_OneLinePerClose ==
  /\ closed => Len(lines) = 1
  /\ ~closed => lines = << >>

\* C10 amended: every closed episode prints exactly one line, except a
\* Driving episode whose distance (odometer of the closing snapshot minus
\* previousBoundary odometer) is -1 or less, which is closed without a line;
\* nothing is printed when no episode is closed.
C10_OneLinePerCloseAmended ==
  [][ /\ closed' =>
          IF /\ firstthismode.mode = "Driving"
             /\ ~NoPrevState(lastprevmode)
             /\ save'.odometer - lastprevmode.odometer <= -1
            THEN lines' = << >>
            ELSE /\ Len(lines') = 1
                 /\ lines'[1].kind \in DeltaKinds \cup {"NoPrevState", "DoNotHandle"}
                 /\ lines'[1].mode = firstthismode.mode
      /\ ~closed' => lines' = << >> ]_vars

C10_Witness ==
  /\ closed
  /\ lines = << >>
  /\ lastprevmode.mode = "Driving"
  /\ firstthismode.mode = "Standby"

\* a step that handles a non-Polling record whose mode differs from the open
\* episode's mode
ModeChange ==
  /\ firstthismode # NoRec
  /\ this'.mode \notin {"Polling", firstthismode.mode}

\* C11: whenever an episode of any mode is closing while previousBoundary
\* (lastprevmode) is absent or lacks usable_battery_level or odometer, the
\* only output is the "did not have previous state" line for that episode,
\* no calculator runs (no fault, no Driving deferral), and the episode is
\* closed: the new episode opens at the incoming record and the program
\* keeps reading.
C11_MissingBoundaryGuard ==
  [][ ( /\ ModeChange
        /\ \/ lastprevmode = NoRec
           \/ ~Truthy(lastprevmode.usable_battery_level)
           \/ ~Truthy(lastprevmode.odometer) )
      => /\ Len(lines') = 1
         /\ lines'[1].kind = "NoPrevState"
         /\ lines'[1].mode = firstthismode.mode
         /\ lines'[1].start = firstthismode.time
         /\ closed' /\ ~deferred'
         /\ pc' = "running" /\ fault' = "none"
         /\ firstthismode' = save'
         /\ firstthismode'.mode = prevrec'.mode
         /\ lastprevmode' = lastthis ]_vars

\* a Driving episode closed by a record without odometer, with the degraded
\* line only
C11_Witness ==
  /\ closed
  /\ Len(lines) = 1
  /\ lines[1].kind = "NoPrevState"
  /\ lines[1].mode = "Driving"
  /\ ~Truthy(this.odometer)
  /\ firstthismode.mode = "Standby"

HandledModes == {"Charging", "Driving", "Standby", "Conditioning"}

\* C12 as stated: when the closing episode's mode is not one of Charging,
\* Driving, Standby, Conditioning, the "Do not handle mode" line is printed
\* and nothing else, the episode is dropped (the incoming record opens the
\* next one) and the program keeps reading.
C12_UnknownMode ==
  [][ (ModeChange /\ firstthismode.mode \notin HandledModes)
      => /\ Len(lines') = 1
         /\ lines'[1].kind = "DoNotHandle"
         /\ lines'[1].mode = firstthismode.mode
         /\ closed' /\ ~deferred'
         /\ pc' = "running" /\ fault' = "none"
         /\ firstthismode' = save'
         /\ firstthismode'.mode = prevrec'.mode ]_vars

\* C12 amended: the same when previousBoundary (lastprevmode) has both a
\* usable_battery_level and an odometer; when it lacks one, the episode is
\* dropped in the same way but the line printed is the "did not have
\* previous state" line.
C12_UnknownModeAmended ==
  [][ (ModeChange /\ firstthismode.mode \notin HandledModes)
      => /\ Len(lines') = 1
         /\ lines'[1].kind =
              IF /\ Truthy(lastprevmode.usable_battery_level)
                 /\ Truthy(lastprevmode.odometer)
                THEN "DoNotHandle" ELSE "NoPrevState"
         /\ lines'[1].mode = firstthismode.mode
         /\ closed' /\ ~deferred'
         /\ pc' = "running" /\ fault' = "none"
         /\ firstthismode' = save'
         /\ firstthismode'.mode = prevrec'.mode ]_vars

\* an Offline episode dropped with the diagnostic, the incoming Standby
\* record opening the next episode
C12_Witness ==
  /\ closed
  /\ Len(lines) = 1
  /\ lines[1].kind = "DoNotHandle"
  /\ lines[1].mode = "Offline"
  /\ firstthismode.mode = "Standby"
  /\ pc = "running"

\* C15: handling a Polling record opens and closes no episode and prints no
\* summary line; firstthismode, lastprevmode, save and lastthis keep their
\* values and reallasttime becomes the record's timestamp.
C15_PollingPassthrough ==
  [][ this'.mode = "Polling"
      => /\ UNCHANGED <<firstthismode, lastprevmode, save, lastthis>>
         /\ lines' = << >>
         /\ ~closed' /\ ~deferred'
         /\ opened' = opened
         /\ pc' = pc
         /\ reallasttime' = this'.time ]_vars

\* a Polling record read while an episode with two merged records is open
C15_Witness ==
  /\ this.mode = "Polling"
  /\ firstthismode # NoRec
  /\ save # firstthismode
  /\ reallasttime = this.time
  /\ reallasttime > save.time

\* C17: handling a non-Polling record of the open episode's mode changes
\* only save and lastthis, which both become the episode's latest snapshot;
\* firstthismode, lastprevmode and reallasttime keep their values, no
\* episode is closed and no summary line is printed.
C17_SameModeMerge ==
  [][ (firstthismode # NoRec /\ this'.mode = firstthismode.mode)
      => /\ UNCHANGED <<firstthismode, lastprevmode, reallasttime>>
         /\ lines' = << >>
         /\ ~closed' /\ ~deferred'
         /\ pc' = pc
         /\ save'.mode = firstthismode.mode
         /\ save'.time = this'.time
         /\ lastthis' = save' ]_vars

\* a second episode, with a boundary behind it, that has merged a record
\* other than its first
C17_Witness ==
  /\ closedbefore
  /\ ~closed
  /\ this.mode = firstthismode.mode
  /\ this # firstthismode
  /\ save = this
  /\ lastthis = save
  /\ lastprevmode # NoRec
  /\ lastprevmode.mode # firstthismode.mode

\* C18 as stated: when an episode closes, lastprevmode is the last record
\* of the episode closed before it (if there is one) and lastthis is the
\* record read immediately before the closing episode opened; after the
\* close lastprevmode is the closed episode's last record and the open
\* episode starts at the incoming record.
C18_BoundaryBookkeeping ==
  [][ closed'
      => /\ beforeopen # NoRec => lastprevmode = beforeopen
         /\ beforeopen # NoRec => lastthis = beforeopen
         /\ lastprevmode' = prevrec
         /\ firstthismode' = prevrec' ]_vars

\* C18 amended: when an episode closes, lastprevmode is the last record of
\* the episode closed before it (if there is one) and lastthis is the
\* non-Polling record read immediately before the incoming record, that is
\* the closing episode's latest snapshot, moved by every record merged into
\* it; after the close lastprevmode is that record, and the open episode and
\* lastthis are the incoming record.
C18_BoundaryBookkeepingAmended ==
  [][ closed'
      => /\ beforeopen # NoRec => lastprevmode = beforeopen
         /\ lastthis = prevrec
         /\ lastprevmode' = prevrec
         /\ firstthismode' = prevrec'
         /\ lastthis' = prevrec' ]_vars

\* the close of a second episode that had merged a record: lastthis, now
\* lastprevmode, was that merged record and not the record read before the
\* episode opened
C18_Witness ==
  /\ closed
  /\ closedbefore
  /\ lastprevmode = beforeopen
  /\ Len(lines) = 1
  /\ lines[1].mode = "Driving"
  /\ lines[1].start = 1
  /\ lastprevmode.mode = "Driving"
  /\ lastprevmode.time = 2
  /\ firstthismode = opened

C13_PerStream ==
  /\ [][Next]_streamvars
  /\ [][ (file' = file /\ closed' /\ lines' # << >>)
         => /\ lines'[1].start = opened.time
            /\ lines'[1].mode = opened.mode ]_vars

\* an episode opened in the first file, merged into in the second and
\* closed there, once, with a line that starts at its first record
C13_Witness ==
  /\ closed
  /\ file = 2
  /\ closedfrom = 1
  /\ lag = 0
  /\ Len(lines) = 1
  /\ lines[1].kind \in DeltaKinds
  /\ lines[1].start = 1
  /\ clock = 2

\* C14: with --outdir (and no --dbconfig) the line of every record is
\* written to the file named after the UTC day of the record's own
\* timestamp, whatever the order of the timestamps.
C14_DailyPartitioning ==
  (outdir /\ ~dbconfig /\ this # NoRec) => wrote = DailyName(clock)

\* C19: with --dbconfig the segmentation state keeps its initial value, no
\* summary line is printed and no line is written to a daily output file,
\* whatever records are read and whatever the database answers.
C19_PersistenceOnly ==
  dbconfig =>
    /\ firstthismode = NoRec
    /\ lastprevmode = NoRec
    /\ save = NoRec
    /\ lastthis = NoRec
    /\ reallasttime = None
    /\ lines = << >>
    /\ ~closed
    /\ fault = "none"
    /\ X = None
    /\ wrote = None

\* with --dbconfig and --outdir, a Polling record and a Driving record of
\* another day stored, the Driving record last
C19_Witness ==
  /\ dbconfig
  /\ outdir
  /\ vehicle
  /\ Cardinality(status) = 2
  /\ this.mode = "Driving"
  /\ Truthy(this.odometer)
  /\ this.time \in status
  /\ pc = "running"

\* C20: a call of post/get sends a request to /oauth/token, first and once,
\* exactly when the current time is strictly greater than the stored
\* expiration; when that request succeeds the stored expiration becomes
\* created_at + expires_in - 86400 and the API request that follows carries
\* the new token; without a refresh the Connection is left as it was.  A
\* Connection constructed with an access_token has infinite expiration and
\* its post/get calls, the one of the constructor included, send no request
\* to /oauth/token.
C20_TokenRefresh ==
  [][ LET refreshed == \E i \in 1 .. Len(sent') : sent'[i].path = "/oauth/token"
      IN
      /\ call' = "post" =>
           /\ refreshed <=> utc' > self.expiration
           /\ refreshed =>
                /\ sent'[1].path = "/oauth/token"
                /\ \A i \in 2 .. Len(sent') : sent'[i].path = "api"
           /\ (refreshed /\ Len(sent') = 2) =>
                /\ self'.expiration =
                     sent'[1].reply.created_at + sent'[1].reply.expires_in - 86400
                /\ self'.access_token = sent'[1].reply.access_token
                /\ sent'[2].bearer = sent'[1].reply.access_token
           /\ ~refreshed => (self' = self /\ Len(sent') = 1 /\ sent'[1].path = "api")
           /\ conn = "token" => (~refreshed /\ self.expiration = Infinity)
      /\ (call' = "init" /\ conn' = "token") =>
           (~refreshed /\ self'.expiration = Infinity) ]_vars

\* C21: every API request a call of post/get sends on a constructed
\* Connection carries an Authorization header, and its Bearer token is the
\* access token obtained last.
C21_BearerHeader ==
  [][ call' = "post"
      => \A i \in 1 .. Len(sent') :
           sent'[i].path = "api"
             => (sent'[i].bearer # NoToken /\ sent'[i].bearer = obtained') ]_vars

\* C22: construction of a Connection fails, with nothing sent but the fetch
\* of the pastebin page, unless the fetched baseurl starts with "https://",
\* has no '/' after that prefix and ends with ".teslamotors.com" or
\* ".tesla.com"; and every /oauth/token and API request of a Connection goes
\* to an https host in one of those two domains.
C22_ConstructionFails ==
  (call = "init" /\ UnexpectedURL(self.baseurl))
    => (conn = "failed" /\ sent = << FetchRequest >>)
C22_BaseUrlValidation ==
  /\ C22_ConstructionFails
  /\ \A i \in 1 .. Len(sent) :
       sent[i].path # FetchRequest.path
         => /\ RequestScheme(sent[i]) = << "h", "t", "t", "p", "s" >>
            /\ \/ EndsWith(RequestHost(sent[i]), TeslaMotors)
               \/ EndsWith(RequestHost(sent[i]), Tesla)
====
